---- MODULE Spec2Model ----
(***************************************************************************)
(* A model of the three batch fetchers of the repository:                  *)
(*   sync_req.py                 asyncio pipeline (gather, then routing)    *)
(*   req.py                      thread-pool pipeline (as_completed)        *)
(*   stock_valuation_fetcher.py  asyncio pipeline guarded by a semaphore    *)
(* One run executes one of the three programs; `prog` says which.          *)
(* Strings of the programs (lines of the input file, stock codes) are      *)
(* sequences of one-character strings, so that strip(), len(), isdigit()   *)
(* and the leading character are computed as the code computes them.       *)
(***************************************************************************)
EXTENDS Integers, Sequences, FiniteSets, TLC

(***************************************************************************)
(* Bounds of the model.                                                    *)
(***************************************************************************)
\* largest number of lines of the input file
MaxLines == 3

\* number of codes of the range req.py walks (2599 in the source)
ReqRangeLen == 2

(***************************************************************************)
(* Program constants.  MAX_WORKERS is 10 in sync_req.py; the model uses a  *)
(* smaller pool so that an input of MaxLines identifiers exceeds it.       *)
(***************************************************************************)
MAX_WORKERS == 2

\* the threshold written into the routing loops
RANK_THRESHOLD == 90

\* stock_valuation_fetcher.CONCURRENT_LIMIT (10 in the source)
CONCURRENT_LIMIT == 2

\* req.MAX_WORKERS (1500 in the source, for 2599 tasks)
REQ_MAX_WORKERS == 2

\* req.py: range(603001, 605600), str(i).zfill(6)
REQ_RANGE_START == 603001

ZFILL_WIDTH == 6

\* stock_valuation_fetcher: len(code) == 6
CODE_LEN == 6

(***************************************************************************)
(* Characters, lines and the input files the runs draw from.               *)
(***************************************************************************)
Digits == {"0", "1", "2", "3", "4", "5", "6", "7", "8", "9"}

Whitespace == {" "}

L_SH == <<"6", "0", "3", "0", "0", "1">>

\* a line with blanks around the code: "000002" once stripped
L_SZ == <<" ", "0", "0", "0", "0", "0", "2", " ">>

L_BAD == <<"1", "2", "a", "4", "5", "6">>

L_UNK == <<"9", "0", "0", "0", "0", "1">>

L_BLANK == <<" ">>

\* the lines code.txt (input of sync_req.py) is made of
CodeTxtLines == {L_SH, L_SZ, L_BAD, L_BLANK}

\* the lines rank_above_90.txt (input of stock_valuation_fetcher.py) is made of
RankTxtLines == {L_SH, L_SZ, L_BAD, L_UNK, L_BLANK}

RECURSIVE SeqsUpTo(_, _)
SeqsUpTo(S, n) ==
    IF n = 0 THEN {<<>>}
    ELSE LET shorter == SeqsUpTo(S, n - 1)
         IN  shorter \cup {Append(s, x) : s \in {t \in shorter : Len(t) = n - 1}, x \in S}

InputFiles(program) ==
    IF program = "sync_req" THEN SeqsUpTo(CodeTxtLines, MaxLines)
    ELSE SeqsUpTo(RankTxtLines, MaxLines)

(***************************************************************************)
(* str.strip(), str.isdigit(), `x in list`.                                *)
(***************************************************************************)
RECURSIVE LStrip(_)
LStrip(s) ==
    IF s # <<>> /\ Head(s) \in Whitespace THEN LStrip(Tail(s)) ELSE s

RECURSIVE RStrip(_)
RStrip(s) ==
    IF s # <<>> /\ s[Len(s)] \in Whitespace
    THEN RStrip(SubSeq(s, 1, Len(s) - 1))
    ELSE s

Strip(s) == RStrip(LStrip(s))

IsDigit(s) == s # <<>> /\ \A i \in 1..Len(s) : s[i] \in Digits

InList(x, l) == \E i \in 1..Len(l) : l[i] = x

Range(l) == {l[i] : i \in 1..Len(l)}

(***************************************************************************)
(* sync_req.get_market_prefix                                              *)
(***************************************************************************)
SyncMarketPrefix(stock_code) ==
    IF stock_code = <<>> THEN ""
    ELSE IF stock_code[1] = "6" THEN "SHSE:"
    ELSE IF stock_code[1] \in {"0", "3"} THEN "SZSE:"
    ELSE "SHSE:"

(***************************************************************************)
(* sync_req.read_stock_codes, for a file that exists: strip every line,    *)
(* keep the non-empty ones not seen before, in file order.                 *)
(***************************************************************************)
\* as SyncReadLines, without the `code not in stock_codes` test
RECURSIVE SyncReadLinesNoDedup(_, _)
SyncReadLinesNoDedup(lines, stock_codes) ==
    IF lines = <<>> THEN stock_codes
    ELSE LET code == Strip(Head(lines))
         IN  SyncReadLinesNoDedup(Tail(lines),
                 IF code # <<>> THEN Append(stock_codes, code) ELSE stock_codes)

RECURSIVE SyncReadLines(_, _)
SyncReadLines(lines, stock_codes) ==
    IF lines = <<>> THEN stock_codes
    ELSE LET code == Strip(Head(lines))
         IN  SyncReadLines(Tail(lines),
                 IF code # <<>> /\ ~InList(code, stock_codes)
                 THEN Append(stock_codes, code)
                 ELSE stock_codes)

SyncReadStockCodes(lines) == SyncReadLines(lines, <<>>)

\* the task list of batch_request_save_filtered: (market_prefix, code)
SyncBuildTasks(codes) ==
    [i \in 1..Len(codes) |->
        [market_prefix |-> SyncMarketPrefix(codes[i]), stock_code |-> codes[i]]]

(***************************************************************************)
(* What the transport can do with one request.                             *)
(***************************************************************************)
Statuses == {200, 404, 503}

\* bodies of a 200 answer: JSON with a rank, JSON without one, not JSON
Bodies200 ==
    {[json |-> TRUE, payload |-> [rank |-> 89]],
     [json |-> TRUE, payload |-> [rank |-> 90]],
     [json |-> TRUE, payload |-> [name |-> "x"]],
     [json |-> FALSE, payload |-> [text |-> "x"]]}

BodyText == [json |-> FALSE, payload |-> [text |-> "x"]]

Responses ==
    {[kind |-> "http", status |-> 200, body |-> b] : b \in Bodies200}
    \cup {[kind |-> "http", status |-> s, body |-> BodyText] : s \in Statuses \ {200}}
    \cup {[kind |-> k, status |-> 0, body |-> BodyText] :
             k \in {"TimeoutError", "ClientError", "Exception"}}

(***************************************************************************)
(* sync_req.query_gurufocus_history, from the answer of the transport to   *)
(* the tuple it returns.                                                   *)
(***************************************************************************)
\* as SyncQueryResult, with every answer that is not a 200 reported as 500
SyncQueryResultLosesStatus(stock_code, market_prefix, resp) ==
    LET Tuple(data, status_code) ==
            [stock_code |-> stock_code, data |-> data,
             status_code |-> status_code, market_prefix |-> market_prefix]
    IN  CASE resp.kind = "http" /\ resp.status = 200 /\ resp.body.json ->
                 Tuple(resp.body.payload, 200)
          [] resp.kind = "http" /\ resp.status = 200 /\ ~resp.body.json ->
                 Tuple([error |-> "json_decode_failed"], 200)
          [] resp.kind = "TimeoutError" -> Tuple([error |-> "timeout"], 408)
          [] OTHER -> Tuple([error |-> "unknown_error"], 500)

SyncQueryResult(stock_code, market_prefix, resp) ==
    LET Tuple(data, status_code) ==
            [stock_code |-> stock_code, data |-> data,
             status_code |-> status_code, market_prefix |-> market_prefix]
    IN  CASE resp.kind = "http" /\ resp.status = 200 /\ resp.body.json ->
                 Tuple(resp.body.payload, 200)
          [] resp.kind = "http" /\ resp.status = 200 /\ ~resp.body.json ->
                 Tuple([error |-> "json_decode_failed"], 200)
          [] resp.kind = "http" /\ resp.status # 200 ->
                 Tuple([error |-> "non_200"], resp.status)
          [] resp.kind = "TimeoutError" -> Tuple([error |-> "timeout"], 408)
          [] resp.kind = "ClientError" -> Tuple([error |-> "client_error"], 500)
          [] OTHER -> Tuple([error |-> "unknown_error"], 500)

\* data.get('rank', None) is not None
HasRank(data) == "rank" \in DOMAIN data

\* market_prefix.replace(':', '')
StripColon(market_prefix) ==
    CASE market_prefix = "SHSE:" -> "SHSE"
      [] market_prefix = "SZSE:" -> "SZSE"
      [] OTHER -> market_prefix

\* f"{stock_code}_{market_prefix.replace(':', '')}.json"
SyncFileName(stock_code, market_prefix) ==
    [stock_code |-> stock_code, market |-> StripColon(market_prefix)]

(***************************************************************************)
(* stock_valuation_fetcher.get_market_prefix, read_stock_codes             *)
(***************************************************************************)
\* as SvfMarketPrefix, with the default of sync_req.get_market_prefix for a
\* leading digit that is none of 6, 0, 3
SvfMarketPrefixDefaultsToSH(stock_code) ==
    IF stock_code = <<>> \/ Len(stock_code) # CODE_LEN \/ ~IsDigit(stock_code) THEN ""
    ELSE IF stock_code[1] = "6" THEN "SHSE"
    ELSE IF stock_code[1] \in {"0", "3"} THEN "SZSE"
    ELSE "SHSE"

SvfMarketPrefix(stock_code) ==
    IF stock_code = <<>> \/ Len(stock_code) # CODE_LEN \/ ~IsDigit(stock_code) THEN ""
    ELSE IF stock_code[1] = "6" THEN "SHSE"
    ELSE IF stock_code[1] \in {"0", "3"} THEN "SZSE"
    ELSE ""

RECURSIVE SvfReadLines(_, _)
SvfReadLines(lines, codes) ==
    IF lines = <<>> THEN codes
    ELSE LET code == Strip(Head(lines))
         IN  SvfReadLines(Tail(lines),
                 IF code # <<>> /\ Len(code) = CODE_LEN /\ IsDigit(code)
                 THEN Append(codes, code)
                 ELSE codes)

SvfReadStockCodes(file) ==
    IF ~file.exists THEN <<>> ELSE SvfReadLines(file.lines, <<>>)

\* valid_tasks of batch_fetch: (code, market) for the codes with a market
RECURSIVE SvfValidTasks(_)
SvfValidTasks(codes) ==
    IF codes = <<>> THEN <<>>
    ELSE LET market == SvfMarketPrefix(Head(codes))
         IN  IF market # ""
             THEN <<[stock_code |-> Head(codes), market_prefix |-> market]>>
                  \o SvfValidTasks(Tail(codes))
             ELSE SvfValidTasks(Tail(codes))

\* what the transport can do with one request of fetch_valuation; a 200
\* answer is a page whose title is missing, names a valuation or does not
SvfResponses ==
    {[kind |-> "http", status |-> 200, title |-> t] :
         t \in {"no_title", "Fairly Valued", "other"}}
    \cup {[kind |-> "http", status |-> 404, title |-> "no_title"]}
    \cup {[kind |-> k, status |-> 0, title |-> "no_title"] :
             k \in {"TimeoutError", "ClientError", "Exception"}}

\* fetch_valuation, from the answer of the transport to the tuple it returns
SvfFetchResult(stock_code, market_prefix, resp) ==
    LET Tuple(valuation) ==
            [stock_code |-> stock_code, market_prefix |-> market_prefix,
             valuation |-> valuation]
    IN  CASE resp.kind = "http" /\ resp.status # 200 -> Tuple("HTTP Error")
          [] resp.kind = "http" /\ resp.title = "no_title" -> Tuple("No Title Found")
          [] resp.kind = "http" /\ resp.title = "other" -> Tuple("Unknown Valuation")
          [] resp.kind = "http" -> Tuple(resp.title)
          [] resp.kind = "TimeoutError" -> Tuple("Timeout")
          [] resp.kind = "ClientError" -> Tuple("Network Error")
          [] OTHER -> Tuple("Error")

(***************************************************************************)
(* results.sort(key=lambda x: x[0]): a stable sort on the code, strings    *)
(* compared character by character.                                        *)
(***************************************************************************)
CharOrd(c) ==
    CASE c = " " -> 32 [] c = "0" -> 48 [] c = "1" -> 49 [] c = "2" -> 50
      [] c = "3" -> 51 [] c = "4" -> 52 [] c = "5" -> 53 [] c = "6" -> 54
      [] c = "7" -> 55 [] c = "8" -> 56 [] c = "9" -> 57 [] OTHER -> 97

RECURSIVE StrLess(_, _)
StrLess(a, b) ==
    IF b = <<>> THEN FALSE
    ELSE IF a = <<>> THEN TRUE
    ELSE IF Head(a) = Head(b) THEN StrLess(Tail(a), Tail(b))
    ELSE CharOrd(Head(a)) < CharOrd(Head(b))

\* insert r after the entries whose key is not greater than its own
RECURSIVE InsertByCode(_, _)
InsertByCode(sorted, r) ==
    IF sorted = <<>> THEN <<r>>
    ELSE IF StrLess(r.stock_code, Head(sorted).stock_code)
         THEN <<r>> \o sorted
         ELSE <<Head(sorted)>> \o InsertByCode(Tail(sorted), r)

RECURSIVE SortByCode(_)
SortByCode(l) ==
    IF l = <<>> THEN <<>>
    ELSE InsertByCode(SortByCode(SubSeq(l, 1, Len(l) - 1)), l[Len(l)])

\* save_results: nothing is written for an empty list
SaveResults(res, file) ==
    IF res = <<>> THEN file ELSE [exists |-> TRUE, lines |-> SortByCode(res)]

(***************************************************************************)
(* req.py: the task list, str(i).zfill(6)                                  *)
(***************************************************************************)
DigitChars == <<"0", "1", "2", "3", "4", "5", "6", "7", "8", "9">>

RECURSIVE Str(_)
Str(n) ==
    IF n < 10 THEN <<DigitChars[n + 1]>>
    ELSE Append(Str(n \div 10), DigitChars[(n % 10) + 1])

RECURSIVE ZFill(_, _)
ZFill(str, width) ==
    IF Len(str) >= width THEN str ELSE ZFill(<<"0">> \o str, width)

ReqBuildTasks ==
    [k \in 1..ReqRangeLen |->
        [market_prefix |-> "SHSE:",
         stock_code |-> ZFill(Str(REQ_RANGE_START + k - 1), ZFILL_WIDTH)]]

\* f"{stock_code}.json"
ReqFileName(stock_code) == [stock_code |-> stock_code, market |-> ""]

\* what requests.get can do: answer, or raise
ReqResponses ==
    {r \in Responses : r.kind \in {"http", "Exception"}}

\* the body of the try block of the as_completed loop, for the future of a
\* request that returned resp: [outcome, file written or not]
ReqSkips(resp) ==
    resp.status = 200 /\ resp.body.json
        /\ HasRank(resp.body.payload) /\ resp.body.payload.rank < RANK_THRESHOLD

ReqRouteOutcome(resp, write_ok) ==
    CASE resp.kind # "http" -> "error"
      [] resp.status # 200 -> "failed"
      [] ~resp.body.json -> "error"
      [] ReqSkips(resp) -> "skipped"
      [] write_ok -> "persisted"
      [] OTHER -> "error"

(***************************************************************************)
(* State.                                                                  *)
(***************************************************************************)
VARIABLES
    prog,                 \* the program that runs: "sync_req", "req", "svf"
    pc,                   \* where the main flow of the program is
    code_file,            \* the input file: [exists, lines]
    stock_codes,          \* the list read_stock_codes returned
    tasks,                \* the task list built from it
    request_counter,      \* sync_req: code -> number of calls of query_gurufocus_history
    issued,               \* the requests handed to the transport, in order
    tstate,               \* per task: "new", "inflight", "done"
    results,              \* per task: the value its coroutine / future returned
    completed_tasks,      \* sync_req: the progress counter of bounded_task
    rank_above_90_codes,  \* sync_req: the list collected by the routing loop
    written,              \* the payload files written by this run
    routed,               \* per routed result: [stock_code, outcome]
    rank_file,            \* rank_above_90.txt of the day folder: [exists, codes]
    rank_file0,           \* rank_above_90.txt as it was when the run began
    semaphore,            \* free slots of the asyncio.Semaphore (0 before it is made)
    results_file,         \* stock_valuation_fetcher: OUTPUT_FILE, [exists, lines]
    stock_code,           \* req: the variable stock_code of the as_completed loop
    answers,              \* per task: what the transport did with its request
    summary,              \* sync_req: the statistics logged at the end of the run
    completion_order      \* sync_req: the tasks in the order their requests ended

vars == <<prog, pc, code_file, stock_codes, tasks, request_counter, issued,
          tstate, results, completed_tasks, rank_above_90_codes, written,
          routed, rank_file, rank_file0, semaphore, results_file, stock_code,
          answers, summary, completion_order>>

NoResult == [status_code |-> 0]

NoAnswer == [kind |-> "none"]

\* the statistics block has not been logged
NoSummary == [total_tasks |-> -1]

NoFile == [exists |-> FALSE, codes |-> <<>>]

\* the day folder may be left from an earlier run of the same day
RankFiles == {NoFile, [exists |-> TRUE, codes |-> <<Strip(L_SZ)>>]}

NoResultsFile == [exists |-> FALSE, lines |-> <<>>]

\* req: stock_code before the loop has bound it
Unbound == <<>>

Programs == {"sync_req", "req", "svf"}

Init ==
    /\ prog \in Programs
    /\ pc = "start"
    /\ code_file \in {[exists |-> FALSE, lines |-> <<>>]}
                     \cup (IF prog = "req" THEN {}
                           ELSE {[exists |-> TRUE, lines |-> l] : l \in InputFiles(prog)})
    /\ stock_codes = <<>>
    /\ tasks = <<>>
    /\ request_counter = <<>>
    /\ issued = <<>>
    /\ tstate = <<>>
    /\ results = <<>>
    /\ completed_tasks = 0
    /\ rank_above_90_codes = <<>>
    /\ written = {}
    /\ routed = <<>>
    /\ rank_file \in (IF prog = "sync_req" THEN RankFiles ELSE {NoFile})
    /\ rank_file0 = rank_file
    /\ semaphore = 0
    /\ results_file = NoResultsFile
    /\ stock_code = Unbound
    /\ answers = <<>>
    /\ summary = NoSummary
    /\ completion_order = <<>>

\* defaultdict(int): a missing key reads as 0
CounterGet(counter, key) ==
    IF key \in DOMAIN counter THEN counter[key] ELSE 0

\* as CounterIncr, adding 2
CounterIncrTwice(counter, key) ==
    [k \in DOMAIN counter \cup {key} |->
        IF k = key THEN CounterGet(counter, key) + 2 ELSE counter[k]]

CounterIncr(counter, key) ==
    [k \in DOMAIN counter \cup {key} |->
        IF k = key THEN CounterGet(counter, key) + 1 ELSE counter[k]]

InFlight == {i \in DOMAIN tstate : tstate[i] = "inflight"}

(***************************************************************************)
(* sync_req.main / batch_request_save_filtered up to the gather.           *)
(***************************************************************************)
\* as SyncReadMissing, with the list file opened for writing before the
\* input is looked at
SyncReadMissingTruncates ==
    /\ prog = "sync_req" /\ pc = "start"
    /\ ~code_file.exists
    /\ pc' = "aborted"
    /\ rank_file' = [exists |-> TRUE, codes |-> <<>>]
    /\ UNCHANGED <<prog, code_file, stock_codes, tasks, request_counter, issued,
                   tstate, results, completed_tasks, rank_above_90_codes,
                   written, routed, rank_file0, semaphore, results_file,
                   stock_code, answers,
                   summary, completion_order>>

\* read_stock_codes raises FileNotFoundError; main catches and logs it
SyncReadMissing ==
    /\ prog = "sync_req" /\ pc = "start"
    /\ ~code_file.exists
    /\ pc' = "aborted"
    /\ UNCHANGED <<prog, code_file, stock_codes, tasks, request_counter, issued,
                   tstate, results, completed_tasks, rank_above_90_codes,
                   written, routed, rank_file, rank_file0, semaphore,
                   results_file, stock_code,
                   answers,
                   summary, completion_order>>

\* the file exists: read it, return early on an empty list, else build the
\* tasks, the semaphore and the coroutines handed to gather
SyncRead ==
    /\ prog = "sync_req" /\ pc = "start"
    /\ code_file.exists
    /\ stock_codes' = SyncReadStockCodes(code_file.lines)
    /\ IF stock_codes' = <<>>
       THEN /\ pc' = "returned_empty"
            /\ UNCHANGED <<tasks, tstate, results, semaphore>>
       ELSE /\ pc' = "gather"
            /\ tasks' = SyncBuildTasks(stock_codes')
            /\ tstate' = [i \in 1..Len(stock_codes') |-> "new"]
            /\ results' = [i \in 1..Len(stock_codes') |-> NoResult]
            /\ semaphore' = MAX_WORKERS
    /\ answers' = [i \in DOMAIN tstate' |-> NoAnswer]
    /\ UNCHANGED <<prog, code_file, request_counter, issued, completed_tasks,
                   rank_above_90_codes, written, routed, rank_file, rank_file0,
                   results_file, stock_code,
                   summary, completion_order>>

\* the tasks take their first step in the order gather was given them
NextToStart(i) ==
    /\ tstate[i] = "new"
    /\ \A j \in 1..(i - 1) : tstate[j] # "new"

\* bounded_task: what holds task i back before it calls
\* query_gurufocus_history.  The semaphore of line 193 is never acquired.
SyncMayStart(i) == NextToStart(i)

\* the request put on the wire for a task, with the attempt number the
\* debug log prints (current_attempt)
SyncRequest(task, current_attempt) ==
    [market_prefix |-> task.market_prefix, stock_code |-> task.stock_code,
     current_attempt |-> current_attempt]

\* bounded_task(i) runs up to the await of session.get
SyncTaskStart(i) ==
    /\ prog = "sync_req" /\ pc = "gather"
    /\ SyncMayStart(i)
    /\ request_counter' = CounterIncr(request_counter, tasks[i].stock_code)
    /\ issued' = Append(issued, SyncRequest(tasks[i],
                            CounterGet(request_counter', tasks[i].stock_code)))
    /\ tstate' = [tstate EXCEPT ![i] = "inflight"]
    /\ UNCHANGED <<prog, pc, code_file, stock_codes, tasks, results,
                   completed_tasks, rank_above_90_codes, written, routed,
                   rank_file, rank_file0, semaphore, results_file, stock_code,
                   answers,
                   summary, completion_order>>

\* as BoundedTaskFinally, with the increment in the branch that handles a
\* 200 answer
BoundedTaskFinallyOn200(completed, r) ==
    IF r.status_code = 200 THEN completed + 1 ELSE completed

\* the finally block of bounded_task; r is what the coroutine returned, or
\* NoResult when it was cancelled
BoundedTaskFinally(completed, r) == completed + 1

\* the request of task i ends (answer, timeout or exception), the coroutine
\* returns its tuple and the finally block counts the task
SyncTaskReturn(i, resp) ==
    /\ prog = "sync_req" /\ pc = "gather"
    /\ tstate[i] = "inflight"
    /\ results' = [results EXCEPT ![i] =
                      SyncQueryResult(tasks[i].stock_code, tasks[i].market_prefix, resp)]
    /\ completed_tasks' = BoundedTaskFinally(completed_tasks, results'[i])
    /\ tstate' = [tstate EXCEPT ![i] = "done"]
    /\ answers' = [answers EXCEPT ![i] = resp]
    /\ completion_order' = Append(completion_order, i)
    /\ UNCHANGED <<prog, pc, code_file, stock_codes, tasks, request_counter,
                   issued, rank_above_90_codes, written, routed, rank_file,
                   rank_file0, semaphore, results_file, stock_code,
                   summary>>

\* the finally blocks of the tasks in set cancelled, run one after another
RECURSIVE CancelAll(_, _)
CancelAll(completed, cancelled) ==
    IF cancelled = {} THEN completed
    ELSE LET i == CHOOSE j \in cancelled : TRUE
         IN  CancelAll(BoundedTaskFinally(completed, NoResult), cancelled \ {i})

\* a user interrupt while gather is awaited: asyncio.run cancels the main
\* task and every task of the gather.  CancelledError and KeyboardInterrupt
\* are BaseException, so neither the handlers of query_gurufocus_history
\* nor the "except Exception" of main catch them: the tasks that wait for
\* their answer run their finally block, the tasks that did not start yet
\* never run, and the code after the gather (routing loop, list file,
\* statistics) is not executed.
SyncInterrupt ==
    /\ prog = "sync_req" /\ pc = "gather"
    /\ InFlight # {}
    /\ pc' = "interrupted"
    /\ tstate' = [i \in DOMAIN tstate |->
                    IF tstate[i] = "inflight" THEN "cancelled"
                    ELSE IF tstate[i] = "new" THEN "never_started"
                    ELSE tstate[i]]
    /\ completed_tasks' = CancelAll(completed_tasks, InFlight)
    /\ UNCHANGED <<prog, code_file, stock_codes, tasks, request_counter, issued,
                   results, rank_above_90_codes, written, routed, rank_file,
                   rank_file0, semaphore, results_file, stock_code, answers,
                   summary, completion_order>>

(***************************************************************************)
(* The routing loop of sync_req and what follows it.  Once gather has      *)
(* returned, the loop, save_rank_above_90_codes and the statistics run     *)
(* without a suspension point, so they are one step.  write_fails is the   *)
(* set of results for which open()/json.dump raise when the loop reaches   *)
(* them.                                                                   *)
(***************************************************************************)
\* as SyncSkips, with the comparison one off
SyncSkipsOneOff(r) ==
    r.status_code = 200 /\ HasRank(r.data) /\ r.data.rank < RANK_THRESHOLD - 1

SyncSkips(r) ==
    r.status_code = 200 /\ HasRank(r.data) /\ r.data.rank < RANK_THRESHOLD

\* as SyncListed, with > for >= (the log text reads "rank>90")
SyncListedAbove(r) ==
    r.status_code = 200 /\ HasRank(r.data) /\ r.data.rank > RANK_THRESHOLD

SyncListed(r) ==
    r.status_code = 200 /\ HasRank(r.data) /\ r.data.rank >= RANK_THRESHOLD

\* the result reaches the open() of line 244
SyncWrites(r) == r.status_code = 200 /\ ~SyncSkips(r)

\* one iteration of the loop, on the loop's state st = [codes, files, log]
SyncRouteOne(st, r, write_ok) ==
    LET outcome == IF r.status_code = 200
                   THEN IF SyncSkips(r) THEN "skipped"
                        ELSE IF write_ok THEN "persisted" ELSE "failed"
                   ELSE "failed"
    IN  [codes |-> IF SyncListed(r) THEN Append(st.codes, r.stock_code) ELSE st.codes,
         files |-> IF outcome = "persisted"
                   THEN st.files \cup {[name |-> SyncFileName(r.stock_code, r.market_prefix),
                                        data |-> r.data]}
                   ELSE st.files,
         log |-> Append(st.log, [stock_code |-> r.stock_code, outcome |-> outcome,
                                 status_code |-> r.status_code])]

\* as SyncRouteLoop, leaving the loop at the first result that is not a 200
RECURSIVE SyncRouteLoopStops(_, _, _, _)
SyncRouteLoopStops(st, res, i, write_fails) ==
    IF i > Len(res) THEN st
    ELSE IF res[i].status_code # 200
         THEN SyncRouteOne(st, res[i], i \notin write_fails)
         ELSE SyncRouteLoopStops(SyncRouteOne(st, res[i], i \notin write_fails),
                                 res, i + 1, write_fails)

RECURSIVE SyncRouteLoop(_, _, _, _)
SyncRouteLoop(st, res, i, write_fails) ==
    IF i > Len(res) THEN st
    ELSE SyncRouteLoop(SyncRouteOne(st, res[i], i \notin write_fails),
                       res, i + 1, write_fails)

\* the per-market lines of the statistics block
SyncShCount(codes) == Cardinality({i \in DOMAIN codes : codes[i][1] = "6"})

SyncSzCount(codes) == Len(codes) - SyncShCount(codes)

\* the statistics block logged after the list file is saved
SyncStatistics(codes, total_tasks, completed, above) ==
    [total_tasks |-> total_tasks,
     completed_tasks |-> completed,
     rank_above_90 |-> Len(above),
     sh_count |-> SyncShCount(codes),
     sz_count |-> SyncSzCount(codes)]

\* save_rank_above_90_codes
SaveRankAbove90(codes, file) ==
    IF codes = <<>> THEN file ELSE [exists |-> TRUE, codes |-> codes]

\* as GatherResults, with the tuples in the order the requests ended
GatherResultsAsCompleted(res, order) == [k \in DOMAIN order |-> res[order[k]]]

\* asyncio.gather(*all_tasks): the list of the returned tuples, in the order
\* of the awaitables it was given, whatever the order they ended in
GatherResults(res, order) == res

\* gather returns once every task is done; the loop over its list, the save
\* of the list file and the statistics follow
SyncRouteAll ==
    /\ prog = "sync_req" /\ pc = "gather"
    /\ \A i \in DOMAIN tstate : tstate[i] = "done"
    /\ LET gathered == GatherResults(results, completion_order) IN
       \E write_fails \in SUBSET {i \in DOMAIN gathered : SyncWrites(gathered[i])} :
         LET st == SyncRouteLoop([codes |-> <<>>, files |-> {}, log |-> <<>>],
                                 gathered, 1, write_fails)
         IN  /\ rank_above_90_codes' = st.codes
             /\ written' = st.files
             /\ routed' = st.log
             /\ rank_file' = SaveRankAbove90(st.codes, rank_file)
             /\ summary' = SyncStatistics(stock_codes, Len(tasks),
                                          completed_tasks, st.codes)
    /\ pc' = "done"
    /\ UNCHANGED <<prog, code_file, stock_codes, tasks, request_counter, issued,
                   tstate, results, completed_tasks, rank_file0, semaphore,
                   results_file, stock_code,
                   answers, completion_order>>

(***************************************************************************)
(* stock_valuation_fetcher.main / batch_fetch                              *)
(***************************************************************************)
\* read_stock_codes, the early return of main, valid_tasks, the semaphore
SvfRead ==
    /\ prog = "svf" /\ pc = "start"
    /\ stock_codes' = SvfReadStockCodes(code_file)
    /\ IF stock_codes' = <<>>
       THEN /\ pc' = "exit_no_codes"
            /\ UNCHANGED <<tasks, tstate, semaphore>>
       ELSE /\ tasks' = SvfValidTasks(stock_codes')
            /\ tstate' = [i \in 1..Len(tasks') |-> "new"]
            /\ IF tasks' = <<>>
               THEN pc' = "save" /\ UNCHANGED semaphore
               ELSE pc' = "gather" /\ semaphore' = CONCURRENT_LIMIT
    /\ answers' = [i \in DOMAIN tstate' |-> NoAnswer]
    /\ UNCHANGED <<prog, code_file, request_counter, issued, results,
                   completed_tasks, rank_above_90_codes, written, routed,
                   rank_file, rank_file0, results_file, stock_code,
                   summary, completion_order>>

\* as SvfMayEnter, without the wait for a free slot
SvfMayEnterUnguarded(i) == tstate[i] = "new"

\* fetch_valuation: `async with semaphore` lets the task in.  as_completed
\* builds its tasks from a set of the coroutines, so the order in which they
\* reach the semaphore is not the order of valid_tasks.
SvfMayEnter(i) == tstate[i] = "new" /\ semaphore > 0

SvfEnter(i) ==
    /\ prog = "svf" /\ pc = "gather"
    /\ SvfMayEnter(i)
    /\ semaphore' = semaphore - 1
    /\ issued' = Append(issued, tasks[i])
    /\ tstate' = [tstate EXCEPT ![i] = "inflight"]
    /\ UNCHANGED <<prog, pc, code_file, stock_codes, tasks, request_counter,
                   results, completed_tasks, rank_above_90_codes, written,
                   routed, rank_file, rank_file0, results_file, stock_code,
                   answers,
                   summary, completion_order>>

\* the request ends, fetch_valuation returns its tuple and leaves the
\* `async with`; the as_completed loop appends the tuple
SvfReturn(i, resp) ==
    /\ prog = "svf" /\ pc = "gather"
    /\ tstate[i] = "inflight"
    /\ results' = Append(results,
                      SvfFetchResult(tasks[i].stock_code, tasks[i].market_prefix, resp))
    /\ semaphore' = semaphore + 1
    /\ tstate' = [tstate EXCEPT ![i] = "done"]
    /\ pc' = IF \A j \in DOMAIN tstate' : tstate'[j] = "done" THEN "save" ELSE pc
    /\ answers' = [answers EXCEPT ![i] = resp]
    /\ UNCHANGED <<prog, code_file, stock_codes, tasks, request_counter, issued,
                   completed_tasks, rank_above_90_codes, written, routed,
                   rank_file, rank_file0, results_file, stock_code,
                   summary, completion_order>>

\* save_results(results)
SvfSave ==
    /\ prog = "svf" /\ pc = "save"
    /\ results' = SortByCode(results)
    /\ results_file' = SaveResults(results, results_file)
    /\ pc' = "done"
    /\ UNCHANGED <<prog, code_file, stock_codes, tasks, request_counter, issued,
                   tstate, completed_tasks, rank_above_90_codes, written,
                   routed, rank_file, rank_file0, semaphore, stock_code,
                   answers,
                   summary, completion_order>>

(***************************************************************************)
(* req.batch_request_save_filtered                                         *)
(***************************************************************************)
\* the task list and the executor.submit of every task
ReqSubmit ==
    /\ prog = "req" /\ pc = "start"
    /\ tasks' = ReqBuildTasks
    /\ tstate' = [i \in DOMAIN tasks' |-> "new"]
    /\ results' = [i \in DOMAIN tasks' |-> NoResult]
    /\ pc' = "pool"
    /\ answers' = [i \in DOMAIN tstate' |-> NoAnswer]
    /\ UNCHANGED <<prog, code_file, stock_codes, request_counter, issued,
                   completed_tasks, rank_above_90_codes, written, routed,
                   rank_file, rank_file0, semaphore, results_file, stock_code,
                   summary, completion_order>>

\* a worker thread of the pool is free for the next queued task
ReqMayStart(i) == NextToStart(i) /\ Cardinality(InFlight) < REQ_MAX_WORKERS

\* the workers go on after the loop has ended on an exception: leaving the
\* `with` block waits for every submitted task
ReqTaskStart(i) ==
    /\ prog = "req" /\ pc \in {"pool", "crashed"}
    /\ ReqMayStart(i)
    /\ issued' = Append(issued, tasks[i])
    /\ tstate' = [tstate EXCEPT ![i] = "inflight"]
    /\ UNCHANGED <<prog, pc, code_file, stock_codes, tasks, request_counter,
                   results, completed_tasks, rank_above_90_codes, written,
                   routed, rank_file, rank_file0, semaphore, results_file,
                   stock_code,
                   answers,
                   summary, completion_order>>

\* requests.get answers or raises; the future holds the outcome
ReqTaskReturn(i, resp) ==
    /\ prog = "req" /\ pc \in {"pool", "crashed"}
    /\ tstate[i] = "inflight"
    /\ results' = [results EXCEPT ![i] = resp]
    /\ tstate' = [tstate EXCEPT ![i] = "done"]
    /\ answers' = [answers EXCEPT ![i] = resp]
    /\ UNCHANGED <<prog, pc, code_file, stock_codes, tasks, request_counter,
                   issued, completed_tasks, rank_above_90_codes, written,
                   routed, rank_file, rank_file0, semaphore, results_file,
                   stock_code,
                   summary, completion_order>>

\* the request raised: future.result() raises before stock_code is assigned
ReqResultRaises(resp) == resp.kind # "http"

\* the iteration reaches the open() of line 56
ReqWrites(resp) ==
    resp.kind = "http" /\ resp.status = 200 /\ resp.body.json /\ ~ReqSkips(resp)

\* one iteration of the as_completed loop, for a finished future.  The
\* handler of line 61 prints stock_code, which names the latest future whose
\* result() returned; when there was none the print raises NameError and
\* the function ends.
ReqRoute(i, write_ok) ==
    /\ prog = "req" /\ pc = "pool"
    /\ tstate[i] = "done"
    /\ ~ReqWrites(results[i]) => write_ok
    /\ tstate' = [tstate EXCEPT ![i] = "routed"]
    /\ LET resp == results[i]
           outcome == ReqRouteOutcome(resp, write_ok)
           bound == IF ReqResultRaises(resp) THEN stock_code ELSE tasks[i].stock_code
       IN  /\ stock_code' = bound
           /\ IF bound = Unbound
              THEN pc' = "crashed" /\ UNCHANGED <<routed, written>>
              ELSE /\ routed' = Append(routed,
                          [stock_code |-> bound, outcome |-> outcome,
                           of |-> tasks[i].stock_code])
                   /\ written' =
                          IF outcome = "persisted"
                          THEN written \cup {[name |-> ReqFileName(bound),
                                              data |-> resp.body.payload]}
                          ELSE written
                   /\ pc' = IF \A j \in DOMAIN tstate' : tstate'[j] = "routed"
                            THEN "done" ELSE pc
    /\ UNCHANGED <<prog, code_file, stock_codes, tasks, request_counter, issued,
                   results, completed_tasks, rank_above_90_codes, rank_file,
                   rank_file0, semaphore, results_file,
                   answers,
                   summary, completion_order>>

Next ==
    \/ SyncReadMissing
    \/ SyncRead
    \/ \E i \in DOMAIN tstate : SyncTaskStart(i)
    \/ \E i \in DOMAIN tstate, resp \in Responses : SyncTaskReturn(i, resp)
    \/ SyncRouteAll
    \/ SyncInterrupt
    \/ SvfRead
    \/ \E i \in DOMAIN tstate : SvfEnter(i)
    \/ \E i \in DOMAIN tstate, resp \in SvfResponses : SvfReturn(i, resp)
    \/ SvfSave
    \/ ReqSubmit
    \/ \E i \in DOMAIN tstate : ReqTaskStart(i)
    \/ \E i \in DOMAIN tstate, resp \in ReqResponses : ReqTaskReturn(i, resp)
    \/ \E i \in DOMAIN tstate, write_ok \in BOOLEAN : ReqRoute(i, write_ok)

Spec == Init /\ [][Next]_vars

\* the indices a task can have
TaskIds == 1..(IF MaxLines > ReqRangeLen THEN MaxLines ELSE ReqRangeLen)

\* What the scheduling of the three programs guarantees.  The event loop
\* and the main thread run whatever is ready, so every step of the programs
\* themselves is taken once it can be.  A request of sync_req and of
\* stock_valuation_fetcher ends within aiohttp.ClientTimeout(total=TIMEOUT),
\* so the return of each of their tasks is guaranteed too.  requests.get
\* in req.py is called without a timeout: nothing guarantees that it
\* returns, and ReqTaskReturn gets no fairness.  Nor does SyncInterrupt,
\* which is the user's doing.
Fairness ==
    /\ WF_vars(SyncReadMissing)
    /\ WF_vars(SyncRead)
    /\ WF_vars(\E i \in DOMAIN tstate : SyncTaskStart(i))
    /\ \A i \in TaskIds :
          WF_vars(i \in DOMAIN tstate /\ \E resp \in Responses : SyncTaskReturn(i, resp))
    /\ WF_vars(SyncRouteAll)
    /\ WF_vars(SvfRead)
    /\ WF_vars(\E i \in DOMAIN tstate : SvfEnter(i))
    /\ \A i \in TaskIds :
          WF_vars(i \in DOMAIN tstate /\ \E resp \in SvfResponses : SvfReturn(i, resp))
    /\ WF_vars(SvfSave)
    /\ WF_vars(ReqSubmit)
    /\ WF_vars(\E i \in DOMAIN tstate : ReqTaskStart(i))
    /\ WF_vars(\E i \in DOMAIN tstate, write_ok \in BOOLEAN : ReqRoute(i, write_ok))

FairSpec == Init /\ [][Next]_vars /\ Fairness

\* sync_req on its own
SyncInit == Init /\ prog = "sync_req"

SyncNext ==
    \/ SyncReadMissing
    \/ SyncRead
    \/ \E i \in DOMAIN tstate : SyncTaskStart(i)
    \/ \E i \in DOMAIN tstate, resp \in Responses : SyncTaskReturn(i, resp)
    \/ SyncRouteAll
    \/ SyncInterrupt

SyncSpec == SyncInit /\ [][SyncNext]_vars

\* stock_valuation_fetcher on its own
SvfInit == Init /\ prog = "svf"

SvfNext ==
    \/ SvfRead
    \/ \E i \in DOMAIN tstate : SvfEnter(i)
    \/ \E i \in DOMAIN tstate, resp \in SvfResponses : SvfReturn(i, resp)
    \/ SvfSave

SvfSpec == SvfInit /\ [][SvfNext]_vars

\* the part of Fairness that concerns stock_valuation_fetcher
SvfFairness ==
    /\ WF_vars(SvfRead)
    /\ WF_vars(\E i \in DOMAIN tstate : SvfEnter(i))
    /\ \A i \in TaskIds :
          WF_vars(i \in DOMAIN tstate /\ \E resp \in SvfResponses : SvfReturn(i, resp))
    /\ WF_vars(SvfSave)

SvfFairSpec == SvfInit /\ [][SvfNext]_vars /\ SvfFairness

(***************************************************************************)
(* Vocabulary of the properties.                                           *)
(***************************************************************************)
\* the distinct identifiers on the lines of the input file
FileIds == {Strip(code_file.lines[k]) : k \in DOMAIN code_file.lines} \ {<<>>}

\* how many entries of a list of records carry the code c
Occurrences(list, c) == Cardinality({k \in DOMAIN list : list[k].stock_code = c})

OutcomeCount(o) == Cardinality({k \in DOMAIN routed : routed[k].outcome = o})

\* the transport answered task i with a 200 whose body is JSON holding a rank
AnsweredRank(i) ==
    /\ answers[i].kind = "http" /\ answers[i].status = 200
    /\ answers[i].body.json
    /\ "rank" \in DOMAIN answers[i].body.payload

AnsweredLowRank(i) == AnsweredRank(i) /\ answers[i].body.payload.rank < 90

AnsweredHighRank(i) == AnsweredRank(i) /\ answers[i].body.payload.rank >= 90

AnsweredBadJson(i) ==
    answers[i].kind = "http" /\ answers[i].status = 200 /\ ~answers[i].body.json

\* the request of task i did not end in a 200
RequestFailed(i) == answers[i].kind # "http" \/ answers[i].status # 200

FilesOf(c) == {f \in written : f.name.stock_code = c}

RoutedAs(c, o) ==
    \E k \in DOMAIN routed : routed[k].stock_code = c /\ routed[k].outcome = o

TransientStatuses == {429, 500, 502, 503, 504}

SyncDone == prog = "sync_req" /\ pc = "done"

\* C1: in sync_req every distinct identifier of the input file has at most
\* one request at any time and, once the run is over, exactly one request, one
\* result tuple and one routed outcome; persisted + skipped + failed is the
\* number of identifiers.
C1_OneOutcomePerIdentifier ==
    prog = "sync_req" =>
        /\ \A c \in FileIds : Occurrences(issued, c) <= 1
        /\ pc = "done" =>
              /\ \A c \in FileIds :
                    /\ Occurrences(issued, c) = 1
                    /\ Occurrences(results, c) = 1
                    /\ Occurrences(routed, c) = 1
              /\ Len(results) = Cardinality(FileIds)
              /\ OutcomeCount("persisted") + OutcomeCount("skipped")
                     + OutcomeCount("failed") = Cardinality(FileIds)

\* a finished run whose file repeats a line and whose identifiers ended differently
C1_Witness ==
    /\ SyncDone
    /\ Len(code_file.lines) > Cardinality(FileIds)
    /\ Cardinality(FileIds) >= 2
    /\ OutcomeCount("persisted") >= 1
    /\ OutcomeCount("failed") >= 1

\* C2: in sync_req at most MAX_WORKERS requests are started and not yet
\* returned, in every state.
C2_AtMostMaxWorkersInFlight ==
    prog = "sync_req" => Cardinality(InFlight) <= MAX_WORKERS

\* C3: in sync_req a transient answer is followed by another request for
\* the identifier: no identifier ends the run on a transient answer after a
\* single request.
C3_TransientAnswerIsRetried ==
    SyncDone =>
        \A i \in DOMAIN answers :
            (answers[i].kind = "http" /\ answers[i].status \in TransientStatuses)
                => CounterGet(request_counter, tasks[i].stock_code) >= 2

\* C4: an identifier answered 200 with a numeric rank below 90 has no payload
\* file written and is not put on the high-rank list, in sync_req and in req,
\* in every state.
C4_LowRankNeverPersisted ==
    prog \in {"sync_req", "req"} =>
        \A i \in DOMAIN answers :
            AnsweredLowRank(i) =>
                /\ FilesOf(tasks[i].stock_code) = {}
                /\ ~InList(tasks[i].stock_code, rank_above_90_codes)
                /\ rank_file # rank_file0
                       => ~InList(tasks[i].stock_code, rank_file.codes)

\* req has routed a low-rank answer and has persisted another identifier
C4_Witness ==
    /\ prog = "req"
    /\ \E i \in DOMAIN answers : AnsweredLowRank(i) /\ tstate[i] = "routed"
    /\ OutcomeCount("persisted") >= 1

\* C5: in sync_req an identifier whose 200 answer is not JSON has no payload
\* file written and ends as failed.
C5_DecodeFailureNotPersisted ==
    prog = "sync_req" =>
        \A i \in DOMAIN answers :
            AnsweredBadJson(i) =>
                /\ FilesOf(tasks[i].stock_code) = {}
                /\ pc = "done" => RoutedAs(tasks[i].stock_code, "failed")

\* C6: in sync_req nothing but a user interrupt abandons the batch once it
\* is scheduled, and when the run is over every identifier other than one
\* that failed
\* (timeout, connection error, exception, non-200 status, write failure) has
\* been requested and routed according to its own answer.
C6_FailureDoesNotAbortBatch ==
    prog = "sync_req" =>
        /\ tasks # <<>> => pc \in {"gather", "done", "interrupted"}
        /\ pc = "done" =>
              \A i \in DOMAIN tasks, j \in DOMAIN tasks :
                  (i # j /\ (RequestFailed(i) \/ RoutedAs(tasks[i].stock_code, "failed")))
                      => /\ Occurrences(issued, tasks[j].stock_code) = 1
                         /\ answers[j] # NoAnswer
                         /\ Occurrences(routed, tasks[j].stock_code) = 1
                         /\ RequestFailed(j) => RoutedAs(tasks[j].stock_code, "failed")
                         /\ AnsweredLowRank(j) => RoutedAs(tasks[j].stock_code, "skipped")
                         /\ RoutedAs(tasks[j].stock_code, "persisted")
                                <=> FilesOf(tasks[j].stock_code) # {}

\* a finished run with a failed request, a failed write and a persisted payload
C6_Witness ==
    /\ SyncDone
    /\ \E i \in DOMAIN tasks, j \in DOMAIN tasks, k \in DOMAIN tasks :
          /\ i < j /\ j < k
          /\ answers[i].kind = "TimeoutError"
          /\ ~RequestFailed(j) /\ RoutedAs(tasks[j].stock_code, "failed")
          /\ RoutedAs(tasks[k].stock_code, "persisted")

\* the identifiers answered 200 with a rank of 90 or more
QualifyingIds == {tasks[i].stock_code : i \in {k \in DOMAIN answers : AnsweredHighRank(k)}}

C8_OnlyWellFormedCodesRequested ==
    prog = "sync_req" =>
        \A k \in DOMAIN issued :
            Len(issued[k].stock_code) = 6 /\ IsDigit(issued[k].stock_code)

\* C9: in stock_valuation_fetcher an identifier of the input file is fetched
\* at most once and is on at most one line of the results file, however often
\* the input file repeats it.
C9_DuplicateFetchedOnce ==
    prog = "svf" =>
        \A c \in FileIds :
            /\ Occurrences(issued, c) <= 1
            /\ Occurrences(results_file.lines, c) <= 1

\* C10: with the input file absent, sync_req and stock_valuation_fetcher
\* stop before scheduling: no task, no request, no payload file, and the
\* list file and the results file are left as they were.
C10_MissingFileAborts ==
    (prog \in {"sync_req", "svf"} /\ ~code_file.exists) =>
        /\ pc \in {"start", "aborted", "exit_no_codes"}
        /\ tasks = <<>>
        /\ issued = <<>>
        /\ written = {}
        /\ rank_file = rank_file0
        /\ results_file = NoResultsFile

\* sync_req has stopped on the missing file, next to a list of an earlier run
C10_Witness ==
    /\ prog = "sync_req" /\ pc = "aborted"
    /\ ~code_file.exists
    /\ rank_file0.exists

\* the transport answered task i with a status that is neither 200 nor one
\* of the transient ones
AnsweredPermanentError(i) ==
    /\ answers[i].kind = "http"
    /\ answers[i].status \notin {200} \cup TransientStatuses

\* C11: in sync_req an identifier answered with a non-200, non-transient
\* status (404) has been requested exactly once, its result tuple carries
\* that status, no payload file exists for it, and once the routing loop has
\* run it is logged exactly once, as failed with that status.
C11_PermanentErrorFailsOnce ==
    prog = "sync_req" =>
        \A i \in DOMAIN tasks :
            AnsweredPermanentError(i) =>
                /\ CounterGet(request_counter, tasks[i].stock_code) = 1
                /\ Occurrences(issued, tasks[i].stock_code) = 1
                /\ results[i].status_code = answers[i].status
                /\ FilesOf(tasks[i].stock_code) = {}
                /\ pc = "done" =>
                      /\ Occurrences(routed, tasks[i].stock_code) = 1
                      /\ \E k \in DOMAIN routed :
                            /\ routed[k].stock_code = tasks[i].stock_code
                            /\ routed[k].outcome = "failed"
                            /\ routed[k].status_code = answers[i].status

\* a finished run in which one identifier was answered 404 and another one
\* was persisted
C11_Witness ==
    /\ SyncDone
    /\ \E i \in DOMAIN tasks, j \in DOMAIN tasks :
          /\ AnsweredPermanentError(i) /\ answers[i].status = 404
          /\ RoutedAs(tasks[i].stock_code, "failed")
          /\ RoutedAs(tasks[j].stock_code, "persisted")

\* the requests of list issued that carry code c, in the order they were sent
RequestsFor(c) == {k \in DOMAIN issued : issued[k].stock_code = c}

\* C12: in sync_req request_counter[c] is the number of requests issued so
\* far for c; the attempt number of a request is the number of requests
\* issued for its code up to and including it, so the attempt numbers of a
\* code increase strictly; and the counter never exceeds 1, the count of a
\* single attempt without retry (the code has no retry loop).
C12_CounterCountsRequests ==
    prog = "sync_req" =>
        /\ \A c \in Range(stock_codes) \cup DOMAIN request_counter :
              /\ CounterGet(request_counter, c) = Cardinality(RequestsFor(c))
              /\ CounterGet(request_counter, c) <= 1
        /\ \A k \in DOMAIN issued :
              issued[k].current_attempt =
                  Cardinality({l \in RequestsFor(issued[k].stock_code) : l <= k})
        /\ \A k \in DOMAIN issued, l \in DOMAIN issued :
              (k < l /\ issued[k].stock_code = issued[l].stock_code)
                  => issued[k].current_attempt < issued[l].current_attempt

\* two identifiers have been requested and a third one not yet
C12_Witness ==
    /\ prog = "sync_req" /\ pc = "gather"
    /\ Len(issued) = 2 /\ Len(tasks) = 3
    /\ CounterGet(request_counter, tasks[1].stock_code) = 1
    /\ CounterGet(request_counter, tasks[2].stock_code) = 1
    /\ CounterGet(request_counter, tasks[3].stock_code) = 0
    /\ issued[2].current_attempt = 1

\* the position of the log entry of code c in the routing log
RoutedPos(c) == CHOOSE k \in DOMAIN routed : routed[k].stock_code = c

C14_InterruptDrainsAndReports ==
    (prog = "sync_req" /\ pc = "interrupted") =>
        /\ Len(issued) = Cardinality({i \in DOMAIN tstate :
                                         tstate[i] \in {"done", "cancelled"}})
        /\ \A i \in DOMAIN tstate :
              tstate[i] # "never_started" => results[i] # NoResult
        /\ \A i \in DOMAIN tstate :
              tstate[i] = "done" => Occurrences(routed, tasks[i].stock_code) = 1
        /\ summary # NoSummary

\* the number of requests that went out under market prefix m
IssuedUnder(m) == Cardinality({k \in DOMAIN issued : issued[k].market_prefix = m})

\* C16: in the summary of sync_req the count logged for SHSE is the number of
\* identifiers requested under the prefix 'SHSE:' and the count logged for
\* SZSE is the number requested under 'SZSE:'.
C16_MarketCountsFollowPrefix ==
    SyncDone =>
        /\ summary.sh_count = IssuedUnder("SHSE:")
        /\ summary.sz_count = IssuedUnder("SZSE:")

\* the fetch tasks that ran and have ended: their coroutine returned a tuple
\* or was cancelled while it waited for the answer.  A task the interrupt
\* cancelled before its first step never ran.
Terminated == {i \in DOMAIN tstate : tstate[i] \in {"done", "cancelled"}}

\* C17: in sync_req completed_tasks is the number of fetch tasks that have
\* terminated so far, each counted once whatever its result, never more than
\* total_tasks; and the summary logs completed_tasks equal to total_tasks.
C17_CompletedCountsTerminated ==
    prog = "sync_req" =>
        /\ completed_tasks = Cardinality(Terminated)
        /\ completed_tasks <= Len(tasks)
        /\ summary # NoSummary =>
              /\ summary.total_tasks = Len(tasks)
              /\ summary.completed_tasks = summary.total_tasks

\* the summary of a run of three tasks, one of which timed out and one of
\* which was answered 404
C17_Witness ==
    /\ SyncDone
    /\ summary.completed_tasks = 3
    /\ \E i \in DOMAIN tasks, j \in DOMAIN tasks :
          /\ answers[i].kind = "TimeoutError"
          /\ answers[j].kind = "http" /\ answers[j].status = 404

\* C18: in stock_valuation_fetcher at most CONCURRENT_LIMIT calls of
\* fetch_valuation are inside the `async with semaphore` section, the free
\* slots are CONCURRENT_LIMIT less the calls inside it whatever way the
\* earlier calls left it, and after the batch all CONCURRENT_LIMIT slots are
\* free.
C18_SemaphoreBoundsAndIsReleased ==
    (prog = "svf" /\ tasks # <<>>) =>
        /\ Cardinality(InFlight) <= CONCURRENT_LIMIT
        /\ semaphore = CONCURRENT_LIMIT - Cardinality(InFlight)
        /\ pc \in {"save", "done"} =>
              /\ semaphore = CONCURRENT_LIMIT
              /\ \A i \in DOMAIN tstate : tstate[i] = "done"

\* the limit is reached again after a call has left the section on a
\* timeout: one call ended on a timeout, CONCURRENT_LIMIT others are inside
C18_Witness ==
    /\ prog = "svf" /\ pc = "gather"
    /\ Cardinality(InFlight) = CONCURRENT_LIMIT
    /\ semaphore = 0
    /\ \E i \in DOMAIN tstate :
          tstate[i] = "done" /\ answers[i].kind = "TimeoutError"

NoTaskPending == \A i \in DOMAIN tstate : tstate[i] \notin {"new", "inflight"}

\* the run of the program is over
BatchOver ==
    \/ pc \in {"aborted", "returned_empty", "exit_no_codes", "interrupted"}
    \/ pc \in {"done", "crashed"} /\ NoTaskPending

\* C15: every request that is in flight eventually ends with an outcome, and
\* the run of each of the three programs eventually is over.
C15_EveryBatchFinishes ==
    /\ \A i \in TaskIds :
          (i \in DOMAIN tstate /\ tstate[i] = "inflight")
              ~> (pc = "interrupted" \/ (i \in DOMAIN tstate /\ tstate[i] # "inflight"))
    /\ <>BatchOver

\* the entries of list that carry code c
Carrying(list, c) == {k \in DOMAIN list : list[k].stock_code = c}

\* a 6-digit numeric code whose leading digit is 6, 0 or 3
Recognised(c) == Len(c) = CODE_LEN /\ IsDigit(c) /\ c[1] \in {"6", "0", "3"}

\* what batch_fetch must do in every state: valid_tasks holds the recognised
\* codes of the input and no other, only those are requested, no task gets
\* a second request or a second tuple, and when batch_fetch has returned
\* its list holds one tuple per task
C19_OneTuplePerValidTask ==
    /\ \A c \in Range(stock_codes) :
          Cardinality(Carrying(tasks, c)) =
              IF Recognised(c)
              THEN Cardinality({k \in DOMAIN stock_codes : stock_codes[k] = c})
              ELSE 0
    /\ \A k \in DOMAIN issued : Recognised(issued[k].stock_code)
    /\ \A c \in Range(stock_codes) :
          /\ Cardinality(Carrying(issued, c)) <= Cardinality(Carrying(tasks, c))
          /\ Cardinality(Carrying(results, c)) <= Cardinality(Carrying(issued, c))
    /\ pc \in {"save", "done"} =>
          /\ \A i \in DOMAIN tstate : tstate[i] = "done"
          /\ Len(results) = Len(tasks)
          /\ \A c \in Range(stock_codes) :
                Cardinality(Carrying(results, c)) = Cardinality(Carrying(tasks, c))

\* C19: in stock_valuation_fetcher a code with an unrecognised leading digit
\* is never requested, and a batch_fetch that has started its tasks
\* eventually returns, whatever the tasks end with; by then every task of
\* valid_tasks, those that had to wait for a slot included, has been
\* admitted and has put exactly one tuple in the list returned.
C19_WaitingTaskIsServed ==
    /\ []C19_OneTuplePerValidTask
    /\ (pc = "gather") ~> (pc = "save")

\* a task waits while CONCURRENT_LIMIT others hold the slots
C19_Witness ==
    /\ prog = "svf" /\ pc = "gather"
    /\ semaphore = 0
    /\ \E i \in DOMAIN tstate : tstate[i] = "new"
    /\ results = <<>>

\* C21: in sync_req every identifier in rank_above_90_codes, and so every
\* identifier the run puts in the list file, has its payload file
\* <identifier>_<market>.json written in the same run.
C21_ListedImpliesPersisted ==
    prog = "sync_req" =>
        /\ \A k \in DOMAIN rank_above_90_codes :
              /\ FilesOf(rank_above_90_codes[k]) # {}
              /\ RoutedAs(rank_above_90_codes[k], "persisted")
        /\ (pc = "done" /\ rank_file # rank_file0) =>
              \A k \in DOMAIN rank_file.codes : FilesOf(rank_file.codes[k]) # {}

====
